---- MODULE Spec2Model ----
(***************************************************************************)
(* Model of the EventEmitter class of event-emitter.ts: the flat handler   *)
(* registry, the wildcard pattern tree, the limitedTimes/once counting     *)
(* wrapper, the deferring wrapper of prepareHandler, and the operations    *)
(* on / once / limitedTimes / off / emit / emitAsync.                      *)
(* on and off also deliver the newListener / removeListener notifications  *)
(* and the handler-limit warning.  globalHandlers and                      *)
(* globalInternalHandlers are never written by any method of the class, so *)
(* the loops of emit / emitAsync over them have no iterations.             *)
(*                                                                         *)
(* Event names are strings, modelled as sequences of one-character         *)
(* strings so that parseEventName really splits them at the delimiter.     *)
(* Function objects (user handlers and the closures the emitter creates)   *)
(* live in the table fns and are referred to by their index, which stands  *)
(* for object identity.                                                    *)
(***************************************************************************)
EXTENDS Integers, Sequences, FiniteSets, TLC

(* ------------------------------ bounds --------------------------------- *)

\* registrations (on/once/limitedTimes calls) made in one behaviour of the
\* flat-registry specification
MaxRegs == 3

\* the same for the storage-mode, handler-option and pattern specifications
MaxModeRegs == 2
MaxOptRegs == 1
MaxWildRegs == 3

\* emits of one event counted against a counting wrapper registered for it
MaxEmits == 3

\* deferred callbacks pending at once
MaxTasks == 2

\* registrations made in one behaviour of the handler-limit specification
MaxLimitRegs == 4

\* the values given to settings.maxHandlers and setMaxHandlers
Thresholds == {-1, 0, 1, 2}

\* registrations made in one behaviour of the notification specification
MaxNotifyRegs == 4

\* registrations made in one behaviour of the emitAsync specification
MaxAsyncRegs == 2

\* registrations made in one behaviour of the failing-handler specification
MaxThrowRegs == 3

\* registrations made in one behaviour of the argument-shape specification
MaxInputRegs == 3

\* the listener functions given to the dispatch-style emitter
NumListeners == 3

\* registrations made in one behaviour of the internal-table specification
MaxInternalRegs == 3

\* registrations made in one behaviour of the specification of a once
\* handler that emits its own event
MaxReenterRegs == 3

\* registrations made in one behaviour of the registry-shape specification
MaxRegistryRegs == 2

\* registrations made in one behaviour of the inner-deep-wildcard
\* specification
MaxDeepRegs == 3

\* registrations made in one behaviour of the runAsync specification
MaxDeferRegs == 2

\* registrations made in one behaviour of the specification of a handler
\* that removes another handler
MaxRemoverRegs == 3

\* the `times` arguments of the limitedTimes calls (once covers 1)
Times == {2}

\* the `times` arguments that are not positive
NonPositive == {0, -1}

(* --------------------------- event names ------------------------------- *)

\* settings.namespaceDelimiter ?? "."
Delimiter == "."

N_error == <<"e", "r", "r", "o", "r">>
N_a     == <<"a">>
N_ab    == <<"a", ".", "b">>
N_ac    == <<"a", ".", "c">>
N_abc   == <<"a", ".", "b", ".", "c">>
N_aS    == <<"a", ".", "*">>
N_Sb    == <<"*", ".", "b">>
N_aD    == <<"a", ".", "*", "*">>
N_SbD   == <<"*", ".", "b", ".", "*", "*">>
N_D     == <<"*", "*">>

N_aDb   == <<"a", ".", "*", "*", ".", "b">>
N_axb   == <<"a", ".", "x", ".", "b">>
N_axyb  == <<"a", ".", "x", ".", "y", ".", "b">>

\* event names of the flat-registry and storage-mode specifications
Names == {N_error, N_a}

\* patterns registered and events emitted by the pattern specification
Patterns == {N_a, N_ab, N_aS, N_Sb, N_aD, N_SbD, N_D}
Events == {N_a, N_ab, N_ac, N_abc, N_aS}

\* the pattern with a deep wildcard between two literals, the patterns
\* registered next to it and the events emitted
InnerDeepPatterns == {N_aDb}
BesidePatterns == {N_aDb, N_ab, N_aS}
DeepEvents == {N_a, N_ab, N_ac, N_axb, N_axyb}

\* the patterns the second handler and the once handler are registered under
SecondPatterns == {N_ab, N_aD}
OncePatterns == {N_aS}

\* the two names on() keeps apart from the ordinary events
N_newListener    == <<"n", "e", "w", "L", "i", "s", "t", "e", "n", "e", "r">>
N_removeListener == <<"r", "e", "m", "o", "v", "e", "L", "i", "s", "t", "e", "n", "e", "r">>
InternalNames == {N_newListener, N_removeListener}

\* the lists of event names passed to on
Lists == {<<N_a, N_error>>, <<N_newListener>>}

\* Array.prototype.toString: the elements joined with commas, which is the
\* property key an array becomes
RECURSIVE ToKey(_)
ToKey(list) ==
  IF list = <<>> THEN <<>>
  ELSE IF Len(list) = 1 THEN list[1]
  ELSE list[1] \o <<",">> \o ToKey(Tail(list))

AllNames ==
  Names \cup Patterns \cup Events \cup InternalNames \cup {ToKey(l) : l \in Lists}

\* settings.maxHandlers ?? 10
DefaultMaxHandlers == 10

\* the values passed as the first argument of an emit: an Error instance or
\* a value that is not an Error
Args == {"err", "val"}

(* ------------------------- function objects ---------------------------- *)

\* user handlers: the first NumHandlers entries of fns
NumHandlers == 3
Handlers == 1..NumHandlers

\* the handlers the behaviours register directly with on, and the one they
\* register through once / limitedTimes
Direct == {1, 2}
Counted == {3}

\* the handler whose body throws when it is called with the argument Boom
Failing == {2}
Boom == "boom"

\* dispatch-style emitter: the event types, the listeners, the listener
\* that throws when the payload is Boom and the one that removes itself
Types == {"t1", "t2"}
DListeners == 1..NumListeners
Throwing == {2}
Leaving == {3}

\* the handler whose body, when told of a new listener, emits the event
Probing == {2}

NoOpts == [runAsync |-> FALSE, useNextTick |-> FALSE, promisify |-> "unset"]

\* the options {runAsync: true}
RunAsyncOpts == [NoOpts EXCEPT !.runAsync = TRUE]

AllOpts == [runAsync : BOOLEAN, useNextTick : BOOLEAN,
            promisify : {"unset", "yes", "no"}]

\* a plain synchronous function supplied by the caller; `does` is what its
\* body does with the emitter it was registered on
UserFn == [kind |-> "user", inner |-> 0, times |-> 0, rem |-> 0, ev |-> <<>>,
           opts |-> NoOpts, async |-> FALSE, does |-> "nothing"]

\* a caller's function whose body calls emitter.off(event, handler)
RemoverFn(event, handler) ==
  [UserFn EXCEPT !.does = "off", !.ev = event, !.inner = handler]

\* a caller's function whose body calls emitter.emit(event, Nested), unless
\* it was itself called with Nested
Nested == "nested"
ReemitterFn(event) == [UserFn EXCEPT !.does = "emit", !.ev = event]

\* wrappedHandler of limitedTimes: closure over remainingCalls, event, handler
LimFn(event, times, handler) ==
  [kind |-> "lim", inner |-> handler, times |-> times, rem |-> times, ev |-> event,
   opts |-> NoOpts, async |-> FALSE, does |-> "nothing"]

\* the arrow function returned by prepareHandler: closure over
\* originalHandler and the three options
PrepFn(handler, o) ==
  [kind |-> "prep", inner |-> handler, times |-> 0, rem |-> 0, ev |-> <<>>,
   opts |-> o, async |-> FALSE, does |-> "nothing"]

\* a value that is not a function (an object literal), passed as a handler;
\* its constructor is Object
NotCallable == [UserFn EXCEPT !.kind = "object"]

\* where the behaviours that pass such a value keep it in the table
ObjectValue == NumHandlers + 1

\* where the behaviours that use them keep the function that removes a
\* handler and the function that emits its own event, and the handler the
\* first one removes
Remover == NumHandlers + 1
Reemitter == NumHandlers + 2
Removed2 == 2

\* typeof process?.nextTick === "function": the emitter runs on Node or Bun
HasNextTick == TRUE

(* ------------------------ listener slots ------------------------------- *)
\* A registry entry or a _listeners bag: undefined, one function, or an array

Absent == [tag |-> "none", items |-> <<>>]
Single(f) == [tag |-> "fn", items |-> <<f>>]
List(fs) == [tag |-> "arr", items |-> fs]

\* the three-way insertion of on (flat) and addToWildcardTree
AddListener(slot, f) ==
  IF slot.tag = "none" THEN Single(f)
  ELSE IF slot.tag = "arr" THEN List(Append(slot.items, f))
  ELSE List(<<slot.items[1], f>>)

\* Array.prototype.findIndex with the predicate of off: the function itself
\* or a function whose `listener` property is the handler.  No code of the
\* class ever sets `listener`, so that property is undefined on every function.
ListenerProp(f) == 0

RECURSIVE FindIndexFrom(_, _, _)
FindIndexFrom(items, handler, k) ==
  IF k > Len(items) THEN 0
  ELSE IF items[k] = handler \/ ListenerProp(items[k]) = handler THEN k
  ELSE FindIndexFrom(items, handler, k + 1)

FindIndex(items, handler) == FindIndexFrom(items, handler, 1)

\* Array.prototype.splice(index, 1)
Splice(items, index) ==
  [i \in 1..(Len(items) - 1) |-> IF i < index THEN items[i] ELSE items[i + 1]]

(* --------------------------- parseEventName ---------------------------- *)

\* String.prototype.split(delimiter) for a one-character delimiter
RECURSIVE SplitFrom(_, _, _, _)
SplitFrom(str, k, cur, acc) ==
  IF k > Len(str) THEN Append(acc, cur)
  ELSE IF str[k] = Delimiter THEN SplitFrom(str, k + 1, <<>>, Append(acc, cur))
  ELSE SplitFrom(str, k + 1, Append(cur, str[k]), acc)

ParseEventName(event) == SplitFrom(event, 1, <<>>, <<>>)

Star == <<"*">>
DeepStar == <<"*", "*">>

SeqToSet(q) == {q[i] : i \in 1..Len(q)}

Includes(parts, p) == p \in SeqToSet(parts)

(* --------------------------- pattern tree ------------------------------ *)
\* wildcardTree is a function from node paths (sequences of segments) to the
\* node's _listeners slot; its domain is the set of nodes that exist.

EmptyTree == (<<>> :> Absent)

\* currentLevel[part] = currentLevel[part] || {}
Descend(tree, path) == IF path \in DOMAIN tree THEN tree ELSE (path :> Absent) @@ tree

AddAt(tree, path, handler) == [tree EXCEPT ![path] = AddListener(@, handler)]

\* AddPattern without the registration at the level of a `**` segment
RECURSIVE AddPatternBelowOnly(_, _, _, _, _)
AddPatternBelowOnly(tree, parts, index, path, handler) ==
  IF index > Len(parts) THEN tree
  ELSE LET next == Append(path, parts[index])
           t2 == Descend(tree, next)
           t3 == IF index = Len(parts) THEN AddAt(t2, next, handler) ELSE t2
       IN AddPatternBelowOnly(t3, parts, index + 1, next, handler)

\* the loop of the wildcard-pattern branch of addToWildcardTree
RECURSIVE AddPattern(_, _, _, _, _)
AddPattern(tree, parts, index, path, handler) ==
  IF index > Len(parts) THEN tree
  ELSE LET part == parts[index]
           t1 == IF part = DeepStar THEN AddAt(tree, path, handler) ELSE tree
           next == Append(path, part)
           t2 == Descend(t1, next)
           t3 == IF index = Len(parts) THEN AddAt(t2, next, handler) ELSE t2
       IN AddPattern(t3, parts, index + 1, next, handler)

\* the loop of the regular-path branch of addToWildcardTree
RECURSIVE AddPath(_, _, _, _, _)
AddPath(tree, parts, index, path, handler) ==
  IF index > Len(parts) THEN tree
  ELSE LET next == Append(path, parts[index])
           t2 == Descend(tree, next)
           t3 == IF index = Len(parts) THEN AddAt(t2, next, handler) ELSE t2
       IN AddPath(t3, parts, index + 1, next, handler)

\* addToWildcardTree once parseEventName has produced the parts
AddParts(tree, eventParts, handler) ==
  IF Includes(eventParts, Star) \/ Includes(eventParts, DeepStar)
  THEN AddPattern(tree, eventParts, 1, <<>>, handler)
  ELSE AddPath(tree, eventParts, 1, <<>>, handler)

\* addToWildcardTree(event, handler) for a string
AddToWildcardTree(tree, event, handler) ==
  AddParts(tree, ParseEventName(event), handler)

\* parseEventName of an array: event.map((e) => String(e)); the elements are
\* strings already
ParseEventList(list) == list

\* Traverse whose `*` branch goes down without consuming the segment
RECURSIVE TraverseStarKeepsSegment(_, _, _, _, _)
TraverseStarKeepsSegment(tree, parts, path, isDeepWildcard, acc) ==
  IF parts = <<>> THEN acc \o tree[path].items
  ELSE LET current == Head(parts)
           rest == Tail(parts)
           exact == Append(path, current)
           star == Append(path, Star)
           deep == Append(path, DeepStar)
           a1 == IF exact \in DOMAIN tree
                 THEN TraverseStarKeepsSegment(tree, rest, exact, FALSE, acc) ELSE acc
           a2 == IF star \in DOMAIN tree
                 THEN TraverseStarKeepsSegment(tree, parts, star, FALSE, a1) ELSE a1
       IN IF deep \in DOMAIN tree
          THEN LET b0 == a2 \o tree[deep].items
                   b1 == TraverseStarKeepsSegment(tree, rest, deep, TRUE, b0)
               IN IF ~isDeepWildcard
                  THEN TraverseStarKeepsSegment(tree, parts, deep, TRUE, b1)
                  ELSE b1
          ELSE a2

\* the helper traverse of findWildcardHandlers; acc is foundHandlers
RECURSIVE Traverse(_, _, _, _, _)
Traverse(tree, parts, path, isDeepWildcard, acc) ==
  IF parts = <<>> THEN acc \o tree[path].items
  ELSE LET current == Head(parts)
           rest == Tail(parts)
           exact == Append(path, current)
           star == Append(path, Star)
           deep == Append(path, DeepStar)
           a1 == IF exact \in DOMAIN tree
                 THEN Traverse(tree, rest, exact, FALSE, acc) ELSE acc
           a2 == IF star \in DOMAIN tree
                 THEN Traverse(tree, rest, star, FALSE, a1) ELSE a1
       IN IF deep \in DOMAIN tree
          THEN LET b0 == a2 \o tree[deep].items
                   b1 == Traverse(tree, rest, deep, TRUE, b0)
               IN IF ~isDeepWildcard THEN Traverse(tree, parts, deep, TRUE, b1)
                  ELSE b1
          ELSE a2

\* Dedupe that returns foundHandlers as collected
KeepAll(q, acc) == acc \o q

\* [...new Set(foundHandlers)]: first occurrences, in insertion order
RECURSIVE Dedupe(_, _)
Dedupe(q, acc) ==
  IF q = <<>> THEN acc
  ELSE IF Head(q) \in SeqToSet(acc) THEN Dedupe(Tail(q), acc)
  ELSE Dedupe(Tail(q), Append(acc, Head(q)))

\* findWildcardHandlers applied to the parts of an event name
FindWildcardHandlers(tree, eventParts) ==
  Dedupe(Traverse(tree, eventParts, <<>>, FALSE, <<>>), <<>>)

(* ------------------------------ state ---------------------------------- *)

VARIABLES
  supportsWildcards,  \* this.supportsWildcards
  suppressErrors,     \* this.suppressErrors
  eventHandlers,      \* this.eventHandlers: event name -> slot
  wildcardTree,       \* this.wildcardTree
  notifyNewListener,  \* this.notifyNewListener
  notifyRemoveListener, \* this.notifyRemoveListener
  maxHandlersCount,   \* this.maxHandlersCount
  internalHandlers,   \* this.internalHandlers: internal name -> listeners
  fns,                \* the function objects that exist, by identity
  tasks,              \* callbacks handed to setImmediate / process.nextTick
  hits,               \* history: per counting wrapper, calls of its handler
  seen,               \* history: per counting wrapper, emit calls of its event
  regs,               \* history: the registrations made
  last,               \* history: what the last call did and returned
  promise,            \* the promise returned by the latest emitAsync
  listeners,          \* dispatch-style emitter: this.listeners, type -> Set
  dispatched,         \* history: what the last dispatch did and returned
  quota               \* registrations the behaviour may still make

vars == <<supportsWildcards, suppressErrors, eventHandlers, wildcardTree,
          notifyNewListener, notifyRemoveListener, maxHandlersCount,
          internalHandlers, fns, tasks, hits, seen, regs, last, promise,
          listeners, dispatched, quota>>

\* the part of the state a call and the handlers it runs can read and write
Machine ==
  [wild |-> supportsWildcards, eh |-> eventHandlers, tree |-> wildcardTree,
   internal |-> internalHandlers, fns |-> fns, tasks |-> tasks, hits |-> hits,
   ran |-> <<>>, body |-> <<>>, notes |-> <<>>, warns |-> 0, thrown |-> "none",
   collect |-> FALSE, promise |-> promise]

\* no emitAsync call made yet
NoPromise == [state |-> "none", results |-> <<>>]

NoCall == [op |-> "none", ev |-> <<>>, names |-> <<>>, arg |-> "val", fn |-> 0,
           pre |-> <<>>, ran |-> <<>>, body |-> <<>>, notes |-> <<>>,
           warns |-> 0, ret |-> "none"]

\* what a call did: the functions it invoked, the handler bodies that ran,
\* the notifications delivered and the warnings printed
Done(s, call) ==
  [call EXCEPT !.ran = s.ran, !.body = s.body, !.notes = s.notes,
               !.warns = s.warns,
               !.ret = IF call.ret = "none" /\ s.thrown # "none"
                       THEN "throw:" \o s.thrown ELSE call.ret]

(* -------------------------- notifications ------------------------------ *)

RECURSIVE OffOp(_, _, _)
RECURSIVE EmitOp(_, _, _)

\* what the probing listener's own emit leaves behind: the listener does not
\* catch, so a failure of that emit is the listener's failure
Probed(r) ==
  IF r[1].thrown = "none" /\ r[2] \notin {"true", "false"}
  THEN [r[1] EXCEPT !.thrown = "Error"] ELSE r[1]

\* the body of a user function called as a listener of the internal event
\* `name` with (event, handler): it records the notification; a probing
\* function told of a new listener first emits the event it was told about
ListenerBody(s, name, f, event, handler) ==
  [(IF f \in Probing /\ name = N_newListener
    THEN Probed(EmitOp(s, event, "val")) ELSE s)
   EXCEPT !.notes = Append(@, [name |-> name, listener |-> f,
                               ev |-> event, h |-> handler])]

\* an internal listener f called with (event, handler): a user function
\* runs its body, a counting wrapper counts and passes the call on
RECURSIVE Notify(_, _, _, _, _)
Notify(s, name, f, event, handler) ==
  LET fn == s.fns[f] IN
  IF fn.kind = "lim"
  THEN LET s1 == [s EXCEPT !.fns[f].rem = @ - 1]
           s2 == IF s1.fns[f].rem = 0 THEN OffOp(s1, fn.ev, f) ELSE s1
       IN Notify([s2 EXCEPT !.hits[f] = @ + 1], name, fn.inner, event, handler)
  ELSE ListenerBody(s, name, f, event, handler)

\* handlers.forEach of emitInternal, from index k, length read at the start;
\* a listener that throws ends the loop
RECURSIVE EmitInternalFrom(_, _, _, _, _, _)
EmitInternalFrom(s, name, k, len, event, handler) ==
  IF k > len \/ s.thrown # "none" THEN s
  ELSE EmitInternalFrom(Notify(s, name, s.internal[name][k], event, handler),
                        name, k + 1, len, event, handler)

\* emitInternal(name, event, handler)
EmitInternal(s, name, event, handler) ==
  EmitInternalFrom(s, name, 1, Len(s.internal[name]), event, handler)

\* a removal that tells the removeListener listeners whatever the flag says
RemovedAlwaysTold(s, event, handler) ==
  EmitInternal(s, N_removeListener, event, handler)

\* if (this.notifyRemoveListener) this.emitInternal("removeListener", ...)
Removed(s, event, handler) ==
  IF notifyRemoveListener THEN EmitInternal(s, N_removeListener, event, handler)
  ELSE s

\* checkHandlerLimit that also warns when the count reaches the limit
CheckHandlerLimitAtLimit(s, count) ==
  IF maxHandlersCount > 0 /\ count >= maxHandlersCount
  THEN [s EXCEPT !.warns = @ + 1] ELSE s

\* checkHandlerLimit(event, count): one console.warn above the limit
CheckHandlerLimit(s, count) ==
  IF maxHandlersCount > 0 /\ count > maxHandlersCount
  THEN [s EXCEPT !.warns = @ + 1] ELSE s

(* ------------------------------- off ----------------------------------- *)

\* the `_listeners` property read from a matched handler in the wildcard
\* branch of off: the matches are functions, which carry no such property
ListenersProp(s, match) == Absent

\* off(event, handler), wildcard branch: every match is inspected for an
\* array-valued _listeners holding the handler
OffWildcard(s, event, handler) ==
  LET matches == FindWildcardHandlers(s.tree, ParseEventName(event))
      hit == {i \in 1..Len(matches) :
                /\ ListenersProp(s, matches[i]).tag = "arr"
                /\ FindIndex(ListenersProp(s, matches[i]).items, handler) > 0}
  IN IF hit = {} THEN s ELSE Removed(s, event, handler)

\* the flat branch of off without `if (handlers.length === 0) delete ...`
OffFlatKeepsEmpty(s, event, handler) ==
  LET handlers == s.eh[event]
      index == IF handlers.tag = "arr" THEN FindIndex(handlers.items, handler)
               ELSE 0
      found == IF handlers.tag = "arr" THEN index > 0
               ELSE /\ handlers.tag = "fn"
                    /\ \/ handlers.items[1] = handler
                       \/ ListenerProp(handlers.items[1]) = handler
      left == IF handlers.tag = "arr" THEN List(Splice(handlers.items, index))
              ELSE Absent
  IN IF found THEN Removed([s EXCEPT !.eh[event] = left], event, handler)
     ELSE s

\* off(event, handler), flat branch
OffFlat(s, event, handler) ==
  LET handlers == s.eh[event]
      index == IF handlers.tag = "arr" THEN FindIndex(handlers.items, handler)
               ELSE 0
      spliced == Splice(handlers.items, index)
      found == IF handlers.tag = "arr" THEN index > 0
               ELSE /\ handlers.tag = "fn"
                    /\ \/ handlers.items[1] = handler
                       \/ ListenerProp(handlers.items[1]) = handler
      left == IF handlers.tag = "arr" /\ Len(spliced) > 0 THEN List(spliced)
              ELSE Absent
  IN IF found THEN Removed([s EXCEPT !.eh[event] = left], event, handler)
     ELSE s

\* an off that also takes the handler out of the internal handler table
\* when the event is one of the two internal names
OffOpAlsoInternal(s, event, handler) ==
  IF event \in InternalNames /\ FindIndex(s.internal[event], handler) > 0
  THEN [s EXCEPT !.internal[event] = Splice(@, FindIndex(@, handler))]
  ELSE IF s.wild THEN OffWildcard(s, event, handler)
  ELSE OffFlat(s, event, handler)

\* off(event, handler)
OffOp(s, event, handler) ==
  IF s.wild THEN OffWildcard(s, event, handler) ELSE OffFlat(s, event, handler)

(* ------------------------- calling a function -------------------------- *)

RECURSIVE Call(_, _, _)

\* a prepareHandler closure that calls the original handler at once
CallPrepRunsNow(s, f, arg) == Call(s, s.fns[f].inner, arg)

\* the body of the arrow function returned by prepareHandler
CallPrep(s, f, arg) ==
  LET fn == s.fns[f] IN
  IF fn.opts.promisify = "yes"
  THEN IF fn.opts.useNextTick /\ HasNextTick
       \* delayFn is Promise.prototype.then detached from its promise:
       \* calling it without a receiver throws a TypeError
       THEN [s EXCEPT !.thrown = "TypeError"]
       \* the returned promise settles when the callback has run: under
       \* emitAsync it is element Len(s.ran) of the array given to Promise.all
       ELSE [s EXCEPT !.tasks = Append(@, [fn |-> fn.inner, arg |-> arg,
                                           tick |-> FALSE,
                                           slot |-> IF s.collect THEN Len(s.ran)
                                                    ELSE 0,
                                           owned |-> s.collect])]
  \* nothing is returned: the callback is only handed to the scheduler
  ELSE [s EXCEPT !.tasks = Append(@, [fn |-> fn.inner, arg |-> arg,
                                      tick |-> fn.opts.useNextTick /\ HasNextTick,
                                      slot |-> 0, owned |-> s.collect])]

\* what the body of a caller's function does once it has started: nothing
\* more, emitter.off(ev, inner), or emitter.emit(ev, Nested)
BodyDoes(s, fn, arg) ==
  IF s.thrown # "none" THEN s
  ELSE IF fn.does = "off" THEN OffOp(s, fn.ev, fn.inner)
  ELSE IF fn.does = "emit" /\ arg # Nested THEN Probed(EmitOp(s, fn.ev, Nested))
  ELSE s

\* the body of the caller's function f called with arg
UserBody(s, f, arg) ==
  BodyDoes([s EXCEPT !.body = Append(@, f),
                     !.thrown = IF f \in Failing /\ arg = Boom THEN "handler"
                                ELSE @],
           s.fns[f], arg)

\* a counting wrapper that calls the handler first and counts down and
\* unregisters after the handler has returned
CallLimHandlerFirst(s, f, arg) ==
  LET s1 == Call(s, s.fns[f].inner, arg)
      s2 == [s1 EXCEPT !.fns[f].rem = @ - 1, !.hits[f] = @ + 1]
  IN IF s2.thrown = "none" /\ s2.fns[f].rem = 0 THEN OffOp(s2, s.fns[f].ev, f)
     ELSE s2

\* wrappedHandler of limitedTimes called with arg: --remainingCalls, off when
\* it reaches 0, then the handler
CallLim(s, f, arg) ==
  LET s1 == [s EXCEPT !.fns[f].rem = @ - 1]
      s2 == IF s1.fns[f].rem = 0 THEN OffOp(s1, s.fns[f].ev, f) ELSE s1
  IN Call([s2 EXCEPT !.hits[f] = @ + 1], s.fns[f].inner, arg)

\* invoking function object f with the argument arg
Call(s, f, arg) ==
  LET fn == s.fns[f] IN
  IF fn.kind = "user" THEN UserBody(s, f, arg)
  ELSE IF fn.kind = "lim" THEN CallLim(s, f, arg)
  ELSE IF fn.kind = "prep" THEN CallPrep(s, f, arg)
  \* a value that is not a function cannot be called
  ELSE [s EXCEPT !.thrown = "TypeError"]

\* Array.prototype.forEach / map over the live array stored for `event`:
\* the length is read once, and an index that is no longer present is skipped
RECURSIVE ForEachLive(_, _, _, _, _)
ForEachLive(s, event, k, len, arg) ==
  IF k > len \/ s.thrown # "none" THEN s
  ELSE LET slot == s.eh[event] IN
       IF k <= Len(slot.items)
       THEN ForEachLive(Call([s EXCEPT !.ran = Append(@, slot.items[k])],
                             slot.items[k], arg),
                        event, k + 1, len, arg)
       ELSE ForEachLive(s, event, k + 1, len, arg)

\* forEach / map over an array nobody else holds (the result of
\* findWildcardHandlers, or [handlers])
RECURSIVE ForEachCopy(_, _, _, _)
ForEachCopy(s, items, k, arg) ==
  IF k > Len(items) \/ s.thrown # "none" THEN s
  ELSE ForEachCopy(Call([s EXCEPT !.ran = Append(@, items[k])], items[k], arg),
                   items, k + 1, arg)

(* -------------------------- registration ------------------------------ *)

\* a new function object enters the table
NewFn(s, fn) == [s EXCEPT !.fns = Append(@, fn), !.hits = Append(@, 0)]

\* prepareHandler: the handler itself, or a new deferring closure around it.
\* The result is <<state, prepared handler>>.
PrepareHandler(s, handler, o) ==
  LET runAsync == o.runAsync
      useNextTick == o.useNextTick
      promisify == IF o.promisify = "unset" THEN s.fns[handler].async
                   ELSE o.promisify = "yes"
  IN IF ~runAsync /\ ~useNextTick /\ ~promisify THEN <<s, handler>>
     ELSE <<NewFn(s, PrepFn(handler,
                     [runAsync |-> runAsync, useNextTick |-> useNextTick,
                      promisify |-> IF promisify THEN "yes" ELSE "no"])),
            Len(s.fns) + 1>>

\* the last step of on: the handler goes into the pattern tree or the flat
\* registry, where a slot that is an array has its length checked; nothing
\* is stored when a newListener listener threw
Store(s, event, preparedHandler) ==
  IF s.thrown # "none" THEN <<s, 0>>
  ELSE IF s.wild
  THEN <<[s EXCEPT !.tree = AddToWildcardTree(@, event, preparedHandler)],
         preparedHandler>>
  ELSE LET slot == AddListener(s.eh[event], preparedHandler) IN
       <<IF slot.tag = "arr"
         THEN CheckHandlerLimit([s EXCEPT !.eh[event] = slot], Len(slot.items))
         ELSE [s EXCEPT !.eh[event] = slot],
         preparedHandler>>

\* on that stores the handler first and tells the newListener listeners after
OnOpStoresFirst(s, event, handler, o) ==
  LET p == PrepareHandler(s, handler, o)
      s1 == p[1]
      preparedHandler == p[2]
  IN IF event \in InternalNames
     THEN <<[s1 EXCEPT !.internal[event] = Append(@, handler)], handler>>
     ELSE
     LET s2 == IF s1.wild
               THEN [s1 EXCEPT !.tree = AddToWildcardTree(@, event, preparedHandler)]
               ELSE [s1 EXCEPT !.eh[event] = AddListener(@, preparedHandler)]
     IN <<IF notifyNewListener
          THEN EmitInternal(s2, N_newListener, event, handler) ELSE s2,
          preparedHandler>>

\* on(event, handler, options) for a single event name.  The result is
\* <<state, stored handler>>.
OnOp(s, event, handler, o) ==
  LET p == PrepareHandler(s, handler, o) IN
  IF event \in InternalNames
  THEN <<[p[1] EXCEPT !.internal[event] = Append(@, handler)], handler>>
  ELSE Store(IF notifyNewListener
             THEN EmitInternal(p[1], N_newListener, event, handler) ELSE p[1],
             event, p[2])

\* the last step of on for an array of names: the flat registry is indexed
\* with the array, the pattern tree takes it as the parts of one name
StoreList(s, list, preparedHandler) ==
  IF s.thrown # "none" THEN <<s, 0>>
  ELSE IF s.wild
  THEN <<[s EXCEPT !.tree = AddParts(@, ParseEventList(list), preparedHandler)],
         preparedHandler>>
  ELSE LET slot == AddListener(s.eh[ToKey(list)], preparedHandler) IN
       <<IF slot.tag = "arr"
         THEN CheckHandlerLimit([s EXCEPT !.eh[ToKey(list)] = slot],
                                Len(slot.items))
         ELSE [s EXCEPT !.eh[ToKey(list)] = slot],
         preparedHandler>>

\* on(list, handler, options) for an array of event names: the test for the
\* internal names is made on strings only; the flat registry is indexed
\* with the array, the pattern tree takes the array as the parts of one name.
\* The newListener listeners receive the array; a listener that emits it
\* reaches emit's lookups, which turn it into its key, and the notification
\* is recorded under that key.
OnListOp(s, list, handler, o) ==
  LET p == PrepareHandler(s, handler, o) IN
  StoreList(IF notifyNewListener
            THEN EmitInternal(p[1], N_newListener, ToKey(list), handler)
            ELSE p[1],
            list, p[2])

\* limitedTimes(event, times, handler, options)
LimitedTimesOp(s, event, times, handler, o) ==
  IF s.fns[handler].kind = "object"
  \* typeof handler !== "function": throw new Error(...)
  THEN <<[s EXCEPT !.thrown = "Error"], 0>>
  ELSE LET s1 == NewFn(s, LimFn(event, times, handler))
           wrappedHandler == Len(s.fns) + 1
       IN OnOp(s1, event, wrappedHandler, o)

(* ------------------------------- emit ---------------------------------- *)

\* the handler set resolved at the start of emit / emitAsync
Resolve(s, event) ==
  IF s.wild THEN List(FindWildcardHandlers(s.tree, ParseEventName(event)))
  ELSE s.eh[event]

\* the failure of an "error" event nobody handles
ErrorCause(arg) == IF arg = "err" THEN "arg" ELSE "generic"

\* what emit returns once its handlers were called: true, unless one threw
Outcome(s) == <<s, IF s.thrown # "none" THEN "throw:" \o s.thrown ELSE "true">>

\* emit(event, arg): <<state, outcome>>; the outcome is "true", "false" or
\* "throw:<cause>"
EmitOp(s, event, arg) ==
  LET handlers == Resolve(s, event) IN
  IF handlers.tag = "none"
  THEN IF event = N_error /\ ~suppressErrors
       THEN <<s, "throw:" \o ErrorCause(arg)>>
       ELSE <<s, "false">>
  ELSE Outcome(IF handlers.tag = "fn"
               THEN Call([s EXCEPT !.ran = Append(@, handlers.items[1])],
                         handlers.items[1], arg)
               ELSE IF s.wild THEN ForEachCopy(s, handlers.items, 1, arg)
               ELSE ForEachLive(s, event, 1, Len(handlers.items), arg))

\* the value a call of f settles to: the identity of the user function
\* whose body ran, through the wrappers that pass its value on
RECURSIVE FinalReturn(_, _)
FinalReturn(s, f) ==
  IF s.fns[f].kind = "user" THEN f ELSE FinalReturn(s, s.fns[f].inner)

Undefined == 0
Unsettled == -1

\* what calling the stored function f returns to the map of emitAsync: the
\* value of a synchronous function, a promise that is still unsettled from a
\* promisify closure, undefined from a closure that only schedules
ReturnOf(s, f) ==
  IF s.fns[f].kind = "prep"
  THEN IF s.fns[f].opts.promisify = "yes" THEN Unsettled ELSE Undefined
  ELSE FinalReturn(s, f)

\* the callbacks still pending belong to earlier calls
Disown(q) == [i \in 1..Len(q) |-> [q[i] EXCEPT !.slot = 0, !.owned = FALSE]]

\* Promise.all over what the handlers returned, or the rejection when the
\* map threw
Collected(s) ==
  IF s.thrown # "none"
  THEN <<[s EXCEPT !.promise = [state |-> "rejected", results |-> <<>>]],
         "reject:" \o s.thrown>>
  ELSE <<[s EXCEPT !.promise =
            [state |-> "pending",
             results |-> [i \in 1..Len(s.ran) |->
                            [fn |-> s.ran[i], val |-> ReturnOf(s, s.ran[i])]]]],
         "promise">>

\* emitAsync(event, arg): <<state, outcome>>; the outcome is "promise" (the
\* Promise.all over the handlers' results) or "reject:<cause>"
EmitAsyncOp(s, event, arg) ==
  LET handlers == Resolve(s, event)
      s0 == [s EXCEPT !.collect = TRUE, !.tasks = Disown(@)]
  IN
  IF handlers.tag = "none"
  THEN IF event = N_error /\ ~suppressErrors
       THEN <<[s0 EXCEPT !.promise = [state |-> "rejected", results |-> <<>>]],
              "reject:" \o ErrorCause(arg)>>
       ELSE <<[s0 EXCEPT !.promise = [state |-> "pending", results |-> <<>>]],
              "promise">>
  ELSE Collected(IF handlers.tag = "arr" /\ ~s.wild
                 THEN ForEachLive(s0, event, 1, Len(handlers.items), arg)
                 ELSE ForEachCopy(s0, handlers.items, 1, arg))

(* ------------------------------ actions -------------------------------- *)

Commit(s) ==
  /\ eventHandlers' = s.eh
  /\ wildcardTree' = s.tree
  /\ internalHandlers' = s.internal
  /\ fns' = s.fns
  /\ tasks' = s.tasks
  /\ hits' = s.hits
  /\ promise' = s.promise
  /\ UNCHANGED <<supportsWildcards, suppressErrors, notifyNewListener,
                 notifyRemoveListener, maxHandlersCount, listeners, dispatched>>

Grow(q, n) == [i \in 1..n |-> IF i <= Len(q) THEN q[i] ELSE 0]

IsLimOn(f, event) == fns[f].kind = "lim" /\ fns[f].ev = event

Registered(r, event, handler) ==
  /\ quota > 0
  /\ quota' = quota - 1
  /\ Commit(r[1])
  /\ seen' = Grow(seen, Len(r[1].fns))
  /\ regs' = IF r[1].thrown = "none"
             THEN regs \cup {[ev |-> event, fn |-> r[2], h |-> handler]}
             ELSE regs

\* the listeners a call on `event` finds stored, duplicates included
Candidates(s, event) ==
  IF s.wild THEN Traverse(s.tree, ParseEventName(event), <<>>, FALSE, <<>>)
  ELSE s.eh[event].items

\* emitter.on(event, handler, o)
On(event, handler, o) ==
  /\ Registered(OnOp(Machine, event, handler, o), event, handler)
  /\ last' = Done(OnOp(Machine, event, handler, o)[1],
                  [NoCall EXCEPT !.op = "on", !.ev = event, !.fn = handler,
                                 !.pre = Candidates(Machine, event)])

\* emitter.on(list, handler, o) with an array of event names
OnList(list, handler, o) ==
  /\ Registered(OnListOp(Machine, list, handler, o), ToKey(list), handler)
  /\ last' = Done(OnListOp(Machine, list, handler, o)[1],
                  [NoCall EXCEPT !.op = "onList", !.ev = ToKey(list),
                                 !.names = list, !.fn = handler])

\* emitter.once(event, handler, o)
Once(event, handler, o) ==
  /\ Registered(LimitedTimesOp(Machine, event, 1, handler, o), event, handler)
  /\ last' = Done(LimitedTimesOp(Machine, event, 1, handler, o)[1],
                  [NoCall EXCEPT !.op = "once", !.ev = event, !.fn = handler,
                                 !.pre = Candidates(Machine, event)])

\* emitter.limitedTimes(event, times, handler, o)
LimitedTimes(event, times, handler, o) ==
  /\ Registered(LimitedTimesOp(Machine, event, times, handler, o), event, handler)
  /\ last' = Done(LimitedTimesOp(Machine, event, times, handler, o)[1],
                  [NoCall EXCEPT !.op = "limitedTimes", !.ev = event,
                                 !.fn = handler,
                                 !.pre = Candidates(Machine, event)])

\* emitter.off(event, handler)
Off(event, handler) ==
  /\ Commit(OffOp(Machine, event, handler))
  /\ UNCHANGED <<seen, regs, quota>>
  /\ last' = Done(OffOp(Machine, event, handler),
                  [NoCall EXCEPT !.op = "off", !.ev = event, !.fn = handler,
                                 !.pre = Candidates(Machine, event)])

Emitted(r, op, event) ==
  /\ \A f \in 1..Len(fns) : IsLimOn(f, event) => seen[f] < MaxEmits
  /\ \A f \in 1..Len(fns) : r[1].hits[f] <= MaxEmits
  /\ Len(r[1].tasks) <= MaxTasks
  /\ Commit(r[1])
  /\ seen' = [f \in 1..Len(fns) |->
                IF IsLimOn(f, event) /\ op = "emit" THEN seen[f] + 1 ELSE seen[f]]
  /\ UNCHANGED <<regs, quota>>

Observed(r, op, event, arg) ==
  Done(r[1], [NoCall EXCEPT !.op = op, !.ev = event, !.arg = arg,
                            !.pre = Resolve(Machine, event).items,
                            !.ret = r[2]])

\* emitter.emit(event, arg)
Emit(event, arg) ==
  /\ Emitted(EmitOp(Machine, event, arg), "emit", event)
  /\ last' = Observed(EmitOp(Machine, event, arg), "emit", event, arg)

\* emitter.emitAsync(event, arg)
EmitAsync(event, arg) ==
  /\ Emitted(EmitAsyncOp(Machine, event, arg), "emitAsync", event)
  /\ last' = Observed(EmitAsyncOp(Machine, event, arg), "emitAsync", event, arg)

\* the runtime runs a pending callback: process.nextTick callbacks go before
\* setImmediate callbacks, each kind in the order it was queued
NextTask ==
  IF \E i \in 1..Len(tasks) : tasks[i].tick
  THEN CHOOSE i \in 1..Len(tasks) :
         tasks[i].tick /\ \A j \in 1..(i - 1) : ~tasks[j].tick
  ELSE 1

\* every element of the array given to Promise.all has settled
SettleReady ==
  /\ promise.state = "pending"
  /\ \A i \in 1..Len(promise.results) : promise.results[i].val # Unsettled

\* the promise of a promisify closure settles with what the callback did
Fulfil(s, task) ==
  IF task.slot = 0 \/ s.promise.state # "pending" THEN s
  ELSE IF s.thrown # "none"
  THEN [s EXCEPT !.promise = [state |-> "rejected", results |-> <<>>]]
  ELSE [s EXCEPT !.promise.results[task.slot].val = FinalReturn(s, task.fn)]

\* the state a callback left is kept, and the call recorded
Ran(s, task) ==
  /\ \A f \in 1..Len(fns) : s.hits[f] <= MaxEmits
  /\ Commit(s)
  /\ last' = Done(s, [NoCall EXCEPT !.op = "task", !.arg = task.arg,
                                    !.fn = task.fn])

\* setImmediate callbacks wait for the promise reactions that are ready;
\* process.nextTick callbacks and promise reactions run in either order,
\* depending on where the caller stands
RunTask ==
  /\ tasks # <<>>
  /\ tasks[NextTask].tick \/ ~SettleReady
  /\ Ran(Fulfil(Call([Machine EXCEPT !.tasks = Splice(tasks, NextTask)],
                     tasks[NextTask].fn, tasks[NextTask].arg),
                tasks[NextTask]),
         tasks[NextTask])
  /\ UNCHANGED <<seen, regs, quota>>

\* the promise returned by emitAsync resolves: Promise.all has all its values
Settle ==
  /\ SettleReady
  /\ promise' = [promise EXCEPT !.state = "resolved"]
  /\ last' = [NoCall EXCEPT !.op = "settle"]
  /\ UNCHANGED <<supportsWildcards, suppressErrors, eventHandlers, wildcardTree,
                 notifyNewListener, notifyRemoveListener, maxHandlersCount,
                 internalHandlers, fns, tasks, hits, seen, regs, listeners,
                 dispatched, quota>>

\* emitter.setMaxHandlers(count)
SetMaxHandlers(count) ==
  /\ maxHandlersCount' = count
  /\ last' = [NoCall EXCEPT !.op = "setMaxHandlers"]
  /\ UNCHANGED <<supportsWildcards, suppressErrors, eventHandlers, wildcardTree,
                 notifyNewListener, notifyRemoveListener, internalHandlers,
                 fns, tasks, hits, seen, regs, promise, listeners, dispatched,
                 quota>>

(* ---------------------- the dispatch-style emitter --------------------- *)
\* The EventEmitter class of index.ts: a Set of listeners per event type,
\* kept here as a sequence without repetitions in insertion order.

\* the dispatch-style emitter right after construction: listeners = {}
NoDispatch == [op |-> "none", type |-> "", payload |-> "val", pre |-> <<>>,
               ran |-> <<>>, errors |-> 0, ret |-> "none"]

DispatcherConstructed ==
  /\ listeners = [t \in Types |-> <<>>]
  /\ dispatched = NoDispatch

EmitterUntouched ==
  UNCHANGED <<supportsWildcards, suppressErrors, eventHandlers, wildcardTree,
              notifyNewListener, notifyRemoveListener, maxHandlersCount,
              internalHandlers, fns, tasks, hits, seen, regs, last, promise,
              quota>>

\* Set.prototype.add
SetAdd(q, x) == IF x \in SeqToSet(q) THEN q ELSE Append(q, x)

\* Set.prototype.delete
SetDelete(q, x) == SelectSeq(q, LAMBDA y : y # x)

\* addEventListener(type, listener)
AddEventListener(type, listener) ==
  /\ listeners' = [listeners EXCEPT ![type] = SetAdd(@, listener)]
  /\ dispatched' = [NoDispatch EXCEPT !.op = "add", !.type = type]
  /\ EmitterUntouched

\* removeEventListener(type, listener)
RemoveEventListener(type, listener) ==
  /\ listeners' = [listeners EXCEPT ![type] = SetDelete(@, listener)]
  /\ dispatched' = [NoDispatch EXCEPT !.op = "remove", !.type = type]
  /\ EmitterUntouched

\* the body of a listener called with (type, payload): it is recorded; a
\* leaving listener removes itself from the type; a throwing listener
\* throws when the payload is Boom
ListenerCall(d, listener, type, payload) ==
  [d EXCEPT !.ran = Append(@, listener),
            !.set = IF listener \in Leaving THEN SetDelete(@, listener) ELSE @,
            !.thrown = listener \in Throwing /\ payload = Boom]

\* the for-of loop of dispatch with the try/catch left out: the first
\* listener that throws ends the loop and the call
RECURSIVE DispatchLoopNoCatch(_, _, _, _)
DispatchLoopNoCatch(d, todo, type, payload) ==
  IF todo = <<>> \/ d.thrown THEN d
  ELSE IF Head(todo) \notin SeqToSet(d.set)
  THEN DispatchLoopNoCatch(d, Tail(todo), type, payload)
  ELSE DispatchLoopNoCatch(ListenerCall(d, Head(todo), type, payload),
                           Tail(todo), type, payload)

\* the for-of loop of dispatch over the live Set: the entries are visited in
\* insertion order, an entry deleted before it is reached is not visited;
\* what a listener throws is caught and passed to console.error
RECURSIVE DispatchLoop(_, _, _, _)
DispatchLoop(d, todo, type, payload) ==
  IF todo = <<>> THEN d
  ELSE IF Head(todo) \notin SeqToSet(d.set)
  THEN DispatchLoop(d, Tail(todo), type, payload)
  ELSE LET d1 == ListenerCall(d, Head(todo), type, payload)
           d2 == IF d1.thrown
                 THEN [d1 EXCEPT !.thrown = FALSE, !.errors = @ + 1] ELSE d1
       IN DispatchLoop(d2, Tail(todo), type, payload)

\* dispatch(type, payload)
DispatchOp(type, payload) ==
  DispatchLoop([set |-> listeners[type], ran |-> <<>>, errors |-> 0,
                thrown |-> FALSE],
               listeners[type], type, payload)

Dispatched(op, type, payload) ==
  LET d == DispatchOp(type, payload) IN
  /\ listeners' = [listeners EXCEPT ![type] = d.set]
  /\ dispatched' = [op |-> op, type |-> type, payload |-> payload,
                    pre |-> listeners[type], ran |-> d.ran,
                    errors |-> d.errors,
                    ret |-> IF d.thrown THEN "throw" ELSE "this"]
  /\ EmitterUntouched

\* emitter.dispatch(type, payload)
Dispatch(type, payload) == Dispatched("dispatch", type, payload)

\* emitter.propagate(type, payload): this.dispatch(type, payload)
Propagate(type, payload) == Dispatched("propagate", type, payload)

(* --------------------------- specifications ---------------------------- *)

\* the emitter right after construction, with `values` the functions and
\* other values the caller holds
ConstructedWith(values) ==
  /\ eventHandlers = [n \in AllNames |-> Absent]
  /\ wildcardTree = EmptyTree
  /\ internalHandlers = [n \in InternalNames |-> <<>>]
  /\ fns = values
  /\ tasks = <<>>
  /\ hits = [i \in 1..Len(values) |-> 0]
  /\ seen = [i \in 1..Len(values) |-> 0]
  /\ regs = {}
  /\ last = NoCall
  /\ promise = NoPromise
  /\ DispatcherConstructed

\* the emitter right after construction, the caller holding the handlers
Constructed == ConstructedWith([i \in Handlers |-> UserFn])

\* the constructor's defaults for the notification flags and the limit
DefaultSettings ==
  /\ notifyNewListener = FALSE
  /\ notifyRemoveListener = FALSE
  /\ maxHandlersCount = DefaultMaxHandlers

ArgsFor(event) == IF event = N_error THEN Args ELSE {"val"}

\* The flat registry: new EventEmitter(), handlers with default options
Init ==
  /\ supportsWildcards = FALSE
  /\ suppressErrors = FALSE
  /\ quota = MaxRegs
  /\ DefaultSettings
  /\ Constructed

Next ==
  \/ \E e \in Names, h \in Direct : On(e, h, NoOpts)
  \/ \E e \in Names, h \in Counted : Once(e, h, NoOpts)
  \/ \E e \in Names, h \in Counted, t \in Times : LimitedTimes(e, t, h, NoOpts)
  \/ \E e \in Names, h \in Direct : Off(e, h)
  \/ \E e \in Names : \E a \in ArgsFor(e) : Emit(e, a)

Spec == Init /\ [][Next]_vars

\* Both storage modes and both settings of suppressErrors, default options
InitModes ==
  /\ supportsWildcards \in BOOLEAN
  /\ suppressErrors \in BOOLEAN
  /\ quota = MaxModeRegs
  /\ DefaultSettings
  /\ Constructed

NextModes ==
  \/ \E e \in Names, h \in Direct : On(e, h, NoOpts)
  \/ \E e \in Names, h \in Counted : Once(e, h, NoOpts)
  \/ \E e \in Names, h \in Direct : Off(e, h)
  \/ \E e \in Names : \E a \in ArgsFor(e) : Emit(e, a)
  \/ \E e \in Names : \E a \in ArgsFor(e) : EmitAsync(e, a)

SpecModes == InitModes /\ [][NextModes]_vars

\* Both storage modes, every combination of handler options, one event
InitOpts ==
  /\ supportsWildcards \in BOOLEAN
  /\ suppressErrors = FALSE
  /\ quota = MaxOptRegs
  /\ DefaultSettings
  /\ Constructed

NextOpts ==
  \/ \E h \in Direct, o \in AllOpts : On(N_a, h, o)
  \/ \E h \in Counted, o \in AllOpts : Once(N_a, h, o)
  \/ \E h \in Direct : Off(N_a, h)
  \/ Emit(N_a, "val")
  \/ RunTask

SpecOpts == InitOpts /\ [][NextOpts]_vars

\* The pattern tree: useWildcards, patterns registered, events emitted
InitWild ==
  /\ supportsWildcards = TRUE
  /\ suppressErrors = FALSE
  /\ quota = MaxWildRegs
  /\ DefaultSettings
  /\ Constructed

NextWild ==
  \/ \E p \in Patterns : On(p, 1, NoOpts)
  \/ \E p \in SecondPatterns : On(p, 2, NoOpts)
  \/ \E p \in OncePatterns, h \in Counted : Once(p, h, NoOpts)
  \/ \E e \in Events : Emit(e, "val")

SpecWild == InitWild /\ [][NextWild]_vars

\* The handler limit: flat registry, thresholds set at construction and by
\* setMaxHandlers, registrations on two events
InitLimit ==
  /\ supportsWildcards = FALSE
  /\ suppressErrors = FALSE
  /\ notifyNewListener = FALSE
  /\ notifyRemoveListener = FALSE
  /\ maxHandlersCount \in Thresholds
  /\ quota = MaxLimitRegs
  /\ Constructed

NextLimit ==
  \/ \E e \in Names, h \in Direct : On(e, h, NoOpts)
  \/ \E e \in Names, h \in Counted : Once(e, h, NoOpts)
  \/ \E e \in Names, h \in Direct : Off(e, h)
  \/ \E m \in Thresholds : SetMaxHandlers(m)

SpecLimit == InitLimit /\ [][NextLimit]_vars

\* The notifications: both storage modes, both settings of emitNewListener
\* and emitRemoveListener, listeners registered under the two internal
\* names (the probing handler among the newListener listeners)
InitNotify ==
  /\ supportsWildcards \in BOOLEAN
  /\ suppressErrors = FALSE
  /\ notifyNewListener \in BOOLEAN
  /\ notifyRemoveListener \in BOOLEAN
  /\ maxHandlersCount = DefaultMaxHandlers
  /\ quota = MaxNotifyRegs
  /\ Constructed

NextNotify ==
  \/ \E h \in Direct : On(N_a, h, NoOpts)
  \/ \E h \in Direct : On(N_newListener, h, NoOpts)
  \/ On(N_removeListener, 1, NoOpts)
  \/ \E h \in Counted : Once(N_a, h, NoOpts)
  \/ \E h \in Direct : Off(N_a, h)
  \/ Emit(N_a, "val")

SpecNotify == InitNotify /\ [][NextNotify]_vars

\* emitAsync: both storage modes, handlers registered with every
\* combination of handler options, the returned promise followed until it
\* settles
InitAsync ==
  /\ supportsWildcards \in BOOLEAN
  /\ suppressErrors = FALSE
  /\ quota = MaxAsyncRegs
  /\ DefaultSettings
  /\ Constructed

NextAsync ==
  \/ \E h \in Direct, o \in AllOpts : On(N_a, h, o)
  \/ EmitAsync(N_a, "val")
  \/ RunTask
  \/ Settle

SpecAsync == InitAsync /\ [][NextAsync]_vars

\* A failing handler: both storage modes, default options, emits with and
\* without the argument that makes the failing handler throw
InitThrow ==
  /\ supportsWildcards \in BOOLEAN
  /\ suppressErrors = FALSE
  /\ quota = MaxThrowRegs
  /\ DefaultSettings
  /\ Constructed

NextThrow ==
  \/ \E h \in Direct : On(N_a, h, NoOpts)
  \/ \E h \in Counted : Once(N_a, h, NoOpts)
  \/ \E a \in {"val", Boom} : Emit(N_a, a)

SpecThrow == InitThrow /\ [][NextThrow]_vars

\* The shapes of the arguments of a registration: arrays of event names,
\* the internal names, a handler that is not a function; both storage
\* modes, both settings of emitNewListener
InitInputs ==
  /\ supportsWildcards \in BOOLEAN
  /\ suppressErrors = FALSE
  /\ notifyNewListener \in BOOLEAN
  /\ notifyRemoveListener = FALSE
  /\ maxHandlersCount = DefaultMaxHandlers
  /\ quota = MaxInputRegs
  /\ ConstructedWith([i \in Handlers |-> UserFn] \o <<NotCallable>>)

NextInputs ==
  \/ \E l \in Lists, h \in Direct : OnList(l, h, NoOpts)
  \/ \E e \in {N_a} \cup InternalNames, h \in Direct \cup {ObjectValue} :
       On(e, h, NoOpts)
  \/ \E e \in {N_a}, h \in Counted \cup {ObjectValue} : Once(e, h, NoOpts)
  \/ \E t \in Times : LimitedTimes(N_a, t, ObjectValue, NoOpts)
  \/ \E e \in {N_a, N_error} \cup InternalNames : Emit(e, "val")

SpecInputs == InitInputs /\ [][NextInputs]_vars

\* The dispatch-style emitter
InitDispatch ==
  /\ supportsWildcards = FALSE
  /\ suppressErrors = FALSE
  /\ quota = 0
  /\ DefaultSettings
  /\ Constructed

NextDispatch ==
  \/ \E t \in Types, l \in DListeners : AddEventListener(t, l)
  \/ \E t \in Types, l \in DListeners : RemoveEventListener(t, l)
  \/ \E t \in Types, p \in {"val", Boom} : Dispatch(t, p)
  \/ \E t \in Types, p \in {"val", Boom} : Propagate(t, p)

SpecDispatch == InitDispatch /\ [][NextDispatch]_vars

\* The shape of the flat registry: on, once, limitedTimes (also with a
\* `times` that is not positive), off and emit on two events
InitRegistry ==
  /\ supportsWildcards = FALSE
  /\ suppressErrors \in BOOLEAN
  /\ quota = MaxRegistryRegs
  /\ DefaultSettings
  /\ Constructed

NextRegistry ==
  \/ \E e \in Names, h \in Direct : On(e, h, NoOpts)
  \/ \E e \in Names, h \in Counted : Once(e, h, NoOpts)
  \/ \E e \in Names, h \in Counted, t \in NonPositive :
       LimitedTimes(e, t, h, NoOpts)
  \/ \E e \in Names, h \in Direct : Off(e, h)
  \/ \E e \in Names : \E a \in ArgsFor(e) : Emit(e, a)

SpecRegistry == InitRegistry /\ [][NextRegistry]_vars

\* A deep wildcard between two literal segments: the pattern tree
InitDeep ==
  /\ supportsWildcards = TRUE
  /\ suppressErrors = FALSE
  /\ quota = MaxDeepRegs
  /\ DefaultSettings
  /\ Constructed

NextDeep ==
  \/ \E p \in InnerDeepPatterns : On(p, 1, NoOpts)
  \/ \E p \in BesidePatterns : On(p, 2, NoOpts)
  \/ \E e \in DeepEvents : Emit(e, "val")

SpecDeep == InitDeep /\ [][NextDeep]_vars

\* runAsync: both storage modes, handlers registered with {runAsync: true}
\* and with default options, emits with either argument, the runtime
\* running the scheduled callbacks
InitDefer ==
  /\ supportsWildcards \in BOOLEAN
  /\ suppressErrors = FALSE
  /\ quota = MaxDeferRegs
  /\ DefaultSettings
  /\ Constructed

NextDefer ==
  \/ \E h \in Direct : On(N_a, h, RunAsyncOpts)
  \/ On(N_a, 1, NoOpts)
  \/ \E a \in Args : Emit(N_a, a)
  \/ RunTask

SpecDefer == InitDefer /\ [][NextDefer]_vars

\* the event loop runs a callback handed to setImmediate: a pending
\* callback does not stay pending forever
SpecDeferFair == SpecDefer /\ WF_vars(RunTask)

\* the caller's functions, with the one that calls off and the one that
\* emits the event a among them
WithReentrant ==
  [i \in Handlers |-> UserFn] \o <<RemoverFn(N_a, Removed2), ReemitterFn(N_a)>>

\* A handler that removes a later handler: both storage modes, the handler
\* Remover calls off(a, Removed2) from its body; emit and emitAsync
InitRemover ==
  /\ supportsWildcards \in BOOLEAN
  /\ suppressErrors = FALSE
  /\ quota = MaxRemoverRegs
  /\ DefaultSettings
  /\ ConstructedWith(WithReentrant)

NextRemover ==
  \/ \E h \in Direct \cup {Remover} : On(N_a, h, NoOpts)
  \/ Emit(N_a, "val")
  \/ EmitAsync(N_a, "val")

SpecRemover == InitRemover /\ [][NextRemover]_vars

\* A once handler that emits its own event: flat registry, the handler
\* Reemitter registered through once next to ordinary handlers
InitReenter ==
  /\ supportsWildcards = FALSE
  /\ suppressErrors = FALSE
  /\ quota = MaxReenterRegs
  /\ DefaultSettings
  /\ ConstructedWith(WithReentrant)

NextReenter ==
  \/ \E h \in Direct : On(N_a, h, NoOpts)
  \/ \E h \in Counted \cup {Reemitter} : Once(N_a, h, NoOpts)
  \/ Emit(N_a, "val")

SpecReenter == InitReenter /\ [][NextReenter]_vars

\* The internal handler table: both storage modes, both notification
\* flags, listeners registered under the internal names with on and once,
\* and off called on the internal names
InitInternal ==
  /\ supportsWildcards \in BOOLEAN
  /\ suppressErrors = FALSE
  /\ notifyNewListener \in BOOLEAN
  /\ notifyRemoveListener \in BOOLEAN
  /\ maxHandlersCount = DefaultMaxHandlers
  /\ quota = MaxInternalRegs
  /\ Constructed

NextInternal ==
  \/ \E h \in Direct : On(N_a, h, NoOpts)
  \/ \E n \in InternalNames : On(n, 1, NoOpts)
  \/ \E h \in Counted : Once(N_newListener, h, NoOpts)
  \/ \E h \in Direct : Off(N_a, h)
  \/ \E n \in InternalNames : Off(n, 1)

SpecInternal == InitInternal /\ [][NextInternal]_vars

(* ------------------------------ claims --------------------------------- *)

Count(q, x) == Cardinality({i \in 1..Len(q) : q[i] = x})

NoDuplicates(q) == \A i, j \in 1..Len(q) : q[i] = q[j] => i = j

\* q without the occurrences of x, order kept
RECURSIVE Without(_, _)
Without(q, x) ==
  IF q = <<>> THEN <<>>
  ELSE IF Head(q) = x THEN Without(Tail(q), x)
  ELSE <<Head(q)>> \o Without(Tail(q), x)

Min(a, b) == IF a < b THEN a ELSE b

FnIds == 1..Len(fns)

\* C1: in flat mode one emit(E) invokes the handlers stored for E when the
\* emit starts, each exactly once, in registration order, also when some of
\* them are once/limitedTimes wrappers that unregister themselves meanwhile.
C1_EmitInvokesEveryHandlerInOrder ==
  (~supportsWildcards /\ last.op = "emit") => last.ran = last.pre

\* C2: in either storage mode and for every combination of handler options,
\* a once registration followed by two emits of its event, all deferred work
\* done, has invoked the handler exactly once.
C2_OnceInvokedExactlyOnce ==
  \A f \in FnIds :
    (fns[f].kind = "lim" /\ fns[f].times = 1 /\ seen[f] = 2 /\ tasks = <<>>)
      => hits[f] = 1

\* C3: in flat mode with default options, limitedTimes(E, k, H) with k >= 1
\* followed by n emits of E has invoked H min(n, k) times, and after the
\* k-th invocation the wrapper is no longer stored for E.
C3_LimitedTimesCounts ==
  \A f \in FnIds :
    (~supportsWildcards /\ fns[f].kind = "lim" /\ fns[f].times >= 1)
      => /\ hits[f] = Min(seen[f], fns[f].times)
         /\ hits[f] >= fns[f].times
              => f \notin SeqToSet(eventHandlers[fns[f].ev].items)

\* off(E, H) has just been called for a handler H that was stored for E (in
\* wildcard mode: in the bags that match E) exactly once
OffOfSingleRegistration == last.op = "off" /\ Count(last.pre, last.fn) = 1

\* C4: in flat mode, after off(E, H) of a handler registered once on E, the
\* next emit does not invoke H and invokes every other handler of the
\* emitted event, in the original relative order.
C4_OffLeavesOthersInvoked ==
  [][(~supportsWildcards /\ OffOfSingleRegistration /\ last'.op = "emit")
       => /\ last'.ev = last.ev => last.fn \notin SeqToSet(last'.ran)
          /\ last'.ran = IF last'.ev = last.ev THEN Without(last.pre, last.fn)
                         ELSE eventHandlers[last'.ev].items]_vars

\* C5: in wildcard mode, after off(P, H) with the pattern P that H was
\* registered under, an emit of P does not invoke H.
C5_WildcardOffRemoves ==
  [][(supportsWildcards /\ OffOfSingleRegistration
        /\ last'.op = "emit" /\ last'.ev = last.ev)
       => last.fn \notin SeqToSet(last'.ran)]_vars

\* C6: in either storage mode, emitting "error" with no handler for it fails
\* with the argument (an Error) or a generic error when suppressErrors is
\* off (emit throws, emitAsync rejects); when it is on, emit returns false
\* and emitAsync does not reject.
C6_UnhandledErrorEvent ==
  (last.ev = N_error /\ last.pre = <<>>) =>
    /\ last.op = "emit" =>
         last.ret = IF suppressErrors THEN "false"
                    ELSE "throw:" \o ErrorCause(last.arg)
    /\ last.op = "emitAsync" =>
         last.ret = IF suppressErrors THEN "promise"
                    ELSE "reject:" \o ErrorCause(last.arg)

\* C7: in either storage mode, emit returns true exactly when it invoked at
\* least one handler, and false when no handler is registered for the event.
C7_EmitReturnsWhetherHandlersRan ==
  (last.op = "emit" /\ last.ret \in {"true", "false"})
    => (last.ret = "true" <=> last.ran # <<>>)

(* --- what a pattern is documented to match, stated without the tree --- *)

IsSimple(pp) == \A i \in 1..Len(pp) : pp[i] # DeepStar

IsTrailingDeep(pp) ==
  /\ Len(pp) >= 1
  /\ pp[Len(pp)] = DeepStar
  /\ \A i \in 1..(Len(pp) - 1) : pp[i] # DeepStar

SegmentsMatch(pp, ep, n) == \A i \in 1..n : pp[i] = Star \/ pp[i] = ep[i]

\* literal and `*` segments: same length, segment by segment
SimpleMatch(pp, ep) == Len(ep) = Len(pp) /\ SegmentsMatch(pp, ep, Len(pp))

\* Q.**: the first |Q| segments match Q, anything (or nothing) may follow
DeepMatch(pp, ep) ==
  Len(ep) >= Len(pp) - 1 /\ SegmentsMatch(pp, ep, Len(pp) - 1)

\* the patterns (split into segments) a stored function was registered under
PatternsOf(f) == {ParseEventName(r.ev) : r \in {x \in regs : x.fn = f}}

Stored == {r.fn : r \in regs}

\* C8: in wildcard mode a handler registered under patterns of literal and
\* `*` segments only is invoked by emit(E) exactly when E has as many
\* segments as one of its patterns and matches it segment by segment,
\* whatever else is registered in the tree.
C8_SingleWildcardMatching ==
  (supportsWildcards /\ last.op = "emit") =>
    \A f \in Stored :
      (\A pp \in PatternsOf(f) : IsSimple(pp)) =>
        (f \in SeqToSet(last.ran) <=>
           \E pp \in PatternsOf(f) : SimpleMatch(pp, ParseEventName(last.ev)))

\* C9: in wildcard mode a handler registered under patterns Q.** (the deep
\* wildcard last and nowhere else) is invoked by emit(E) exactly when the
\* first |Q| segments of E match Q; the rest of E may be empty or longer.
C9_TrailingDeepWildcardMatching ==
  (supportsWildcards /\ last.op = "emit") =>
    \A f \in Stored :
      (\A pp \in PatternsOf(f) : IsTrailingDeep(pp)) =>
        (f \in SeqToSet(last.ran) <=>
           \E pp \in PatternsOf(f) : DeepMatch(pp, ParseEventName(last.ev)))

OnlyDirect(h) == \A r \in regs : r.h = h => r.fn = h

WrappersOf(q, h) ==
  {i \in 1..Len(q) : fns[q[i]].kind = "prep" /\ fns[q[i]].inner = h}

\* C11: in flat mode, when H was registered once with deferring options,
\* off(E, H) with the original H removes the wrapper stored for it, and the
\* next emit invokes no wrapper of H.
C11_OffByOriginalRemovesDeferred ==
  [][(~supportsWildcards /\ last.op = "off"
        /\ Cardinality(WrappersOf(last.pre, last.fn)) = 1)
       => /\ WrappersOf(eventHandlers[last.ev].items, last.fn) = {}
          /\ (last'.op = "emit" /\ last'.ev = last.ev)
               => WrappersOf(last'.ran, last.fn) = {}]_vars

RegistrationOps == {"on", "once", "limitedTimes"}

\* C12: in flat mode a registration on an ordinary event E prints exactly one
\* warning when the limit m is at least 1 and E's handler count after the
\* registration exceeds m, prints none otherwise (also when m <= 0), and in
\* every case has appended the handler to what was stored for E.
C12_OneWarningPerHandlerBeyondLimit ==
  (~supportsWildcards /\ last.op \in RegistrationOps
     /\ last.ev \notin InternalNames) =>
    LET now == eventHandlers[last.ev].items IN
    /\ last.warns = IF maxHandlersCount >= 1 /\ Len(last.pre) + 1 > maxHandlersCount
                    THEN 1 ELSE 0
    /\ Len(now) = Len(last.pre) + 1
    /\ SubSeq(now, 1, Len(last.pre)) = last.pre
    /\ \/ now[Len(now)] = last.fn
       \/ fns[now[Len(now)]].inner = last.fn

\* the notifications of the internal event `name` among q
RECURSIVE NotesOf(_, _)
NotesOf(q, name) ==
  IF q = <<>> THEN <<>>
  ELSE IF Head(q).name = name THEN <<Head(q)>> \o NotesOf(Tail(q), name)
  ELSE NotesOf(Tail(q), name)

\* one notification (event, handler) for each listener of `name`, in order
ToldOnce(name, event, handler) ==
  [i \in 1..Len(internalHandlers[name]) |->
     [name |-> name, listener |-> internalHandlers[name][i],
      ev |-> event, h |-> handler]]

\* C13: with emitNewListener on, on(E, H) for an ordinary E has called every
\* newListener listener exactly once with (E, H) by the time it returns, and
\* an emit(E) made by a listener during the notification did not invoke H
\* when H was not stored for E before; with emitNewListener off no
\* newListener listener is called by any operation.
C13_NewListenerToldBeforeStoring ==
  /\ (last.op = "on" /\ last.ev \notin InternalNames /\ notifyNewListener) =>
       /\ NotesOf(last.notes, N_newListener)
            = ToldOnce(N_newListener, last.ev, last.fn)
       /\ last.fn \notin SeqToSet(last.pre) => last.fn \notin SeqToSet(last.ran)
  /\ ~notifyNewListener => NotesOf(last.notes, N_newListener) = <<>>

\* what is stored for the event of the last call now, listed the way the
\* call listed it in last.pre
StoredNow ==
  IF last.op = "emit" THEN Resolve(Machine, last.ev).items
  ELSE Candidates(Machine, last.ev)

\* the registrations the last call took away from what was stored for its
\* event (flat mode: the registry entry; wildcard mode: the matching bags)
Removals ==
  Len(last.pre)
    + (IF last.op \in RegistrationOps /\ last.ev \notin InternalNames THEN 1 ELSE 0)
    - Len(StoredNow)

\* C14: with emitRemoveListener on, an off(E, H) that removes a registration
\* calls each removeListener listener exactly once with (E, H) and an off
\* that removes nothing calls none; the removals a once wrapper makes during
\* an emit are told the same way, once per listener and removal; with
\* emitRemoveListener off no removeListener listener is ever called.
C14_RemoveListenerToldPerRemoval ==
  LET told == NotesOf(last.notes, N_removeListener)
      n == Len(internalHandlers[N_removeListener])
  IN /\ last.op = "off" =>
          told = IF notifyRemoveListener /\ Removals = 1
                 THEN ToldOnce(N_removeListener, last.ev, last.fn) ELSE <<>>
     /\ last.op \in RegistrationOps \cup {"emit"} =>
          /\ Len(told) = IF notifyRemoveListener
                            /\ last.ev \notin InternalNames
                         THEN n * Removals ELSE 0
          /\ \A i \in 1..Len(told) :
               /\ told[i].ev = last.ev
               /\ told[i].h \in SeqToSet(last.pre)
               /\ told[i].h \notin SeqToSet(StoredNow)
     /\ ~notifyRemoveListener => told = <<>>

\* C15: when the promise of an emitAsync(E) that invoked at least one
\* synchronous handler and at least one deferred handler has resolved, no
\* callback scheduled by that call is still pending, and the results are
\* the invoked handlers' values in invocation order.
C15_EmitAsyncResolvesAfterAllHandlers ==
  LET res == promise.results IN
  (/\ promise.state = "resolved"
   /\ \E i \in 1..Len(res) : fns[res[i].fn].kind # "prep"
   /\ \E i \in 1..Len(res) : fns[res[i].fn].kind = "prep")
    => /\ \A k \in 1..Len(tasks) : ~tasks[k].owned
       /\ \A i \in 1..Len(res) : res[i].val = FinalReturn(Machine, res[i].fn)

\* the stored function q[i] fails when it is called with arg
Fails(q, i, arg) == arg = Boom /\ FinalReturn(Machine, q[i]) \in Failing

\* C16: when a handler invoked by emit(E) fails, emit throws that failure,
\* and what the emit invoked is exactly the handlers stored for E up to the
\* failing one: each handler registered before it once, in registration
\* order, and none registered after it.
C16_FailurePropagatesAndStopsEmit ==
  (last.op = "emit" /\ \E k \in 1..Len(last.ran) : Fails(last.ran, k, last.arg)) =>
    /\ last.ret = "throw:handler"
    /\ \E i \in 1..Len(last.pre) :
         /\ Fails(last.pre, i, last.arg)
         /\ last.ran = SubSeq(last.pre, 1, i)

Throws(ret) == ret \in {"throw:Error", "throw:TypeError"}

\* C17: a registration (on, once, limitedTimes) of a value that is not a
\* function throws to the caller and leaves the registry, the pattern tree
\* and the internal handler table as they were.
C17_NonCallableHandlerRejected ==
  [][(last'.op \in RegistrationOps /\ fns[last'.fn].kind = "object")
       => /\ Throws(last'.ret)
          /\ UNCHANGED <<eventHandlers, wildcardTree, internalHandlers>>]_vars

\* C18: after on(list, H) with a list of event names, an emit of a name of
\* the list invokes H.
C18_OnListRegistersEachName ==
  [][(last.op = "onList" /\ Len(last.names) >= 2 /\ last'.op = "emit"
        /\ last'.ev \in SeqToSet(last.names))
       => last.fn \in SeqToSet(last'.ran)]_vars

\* C19: the flat registry and the pattern tree never hold an entry for
\* "newListener" or "removeListener"; a registration under one of them calls
\* no newListener listener and prints no warning; an emit of one of them
\* invokes none of the functions in the internal handler table.
C19_InternalNamesKeptApart ==
  /\ \A n \in InternalNames :
       /\ eventHandlers[n] = Absent
       /\ <<n>> \notin DOMAIN wildcardTree
  /\ (last.op \in RegistrationOps \cup {"onList"} /\ last.ev \in InternalNames)
       => last.notes = <<>> /\ last.warns = 0
  /\ (last.op = "emit" /\ last.ev \in InternalNames)
       => \A n \in InternalNames :
            SeqToSet(internalHandlers[n]) \cap SeqToSet(last.ran) = {}

\* C20: dispatch(type, payload) (and propagate, which calls it) returns
\* normally whatever the listeners do, and has invoked every listener of the
\* type exactly once in insertion order, the ones after a listener that
\* threw included.
C20_DispatchCatchesListenerFailures ==
  dispatched.op \in {"dispatch", "propagate"} =>
    /\ dispatched.ret = "this"
    /\ dispatched.ran = dispatched.pre

\* q holds the removing handler at an earlier position than the one
\* registration of the handler it removes
RemoverFirst(q) ==
  /\ Count(q, Removed2) = 1
  /\ \E i, j \in 1..Len(q) : i < j /\ q[i] = Remover /\ q[j] = Removed2

\* C21: when emit(E) or emitAsync(E) resolved a handler set in which H1
\* comes before H2, and H1 calls off(E, H2) during the emission, H2 is
\* still invoked in this emission, and it is no longer stored for E
\* afterwards, so that no later emission invokes it.
C21_RemovedDuringEmissionStillInvoked ==
  (last.op \in {"emit", "emitAsync"} /\ RemoverFirst(last.pre)
     /\ Remover \in SeqToSet(last.body)) =>
    /\ Removed2 \in SeqToSet(last.ran)
    /\ Removed2 \notin SeqToSet(StoredNow)

\* the position of the one deep wildcard of pp when it is not the last
\* segment, 0 otherwise
InnerDeepAt(pp) ==
  LET at == {i \in 1..Len(pp) : pp[i] = DeepStar} IN
  IF Cardinality(at) = 1 /\ Len(pp) \notin at THEN CHOOSE i \in at : TRUE ELSE 0

\* Q.**.R: the first |Q| segments match Q and the last |R| segments match
\* R, with zero or more segments between them
InnerDeepMatch(pp, ep) ==
  LET k == InnerDeepAt(pp)
      tail == Len(pp) - k
  IN /\ Len(ep) >= Len(pp) - 1
     /\ SegmentsMatch(pp, ep, k - 1)
     /\ \A i \in 1..tail :
          \/ pp[k + i] = Star
          \/ pp[k + i] = ep[Len(ep) - tail + i]

\* C23: in wildcard mode a handler registered under patterns Q.**.R (one
\* deep wildcard, not last) is invoked by emit(E) exactly when E starts with
\* segments matching Q and ends with segments matching R, with zero or more
\* segments in between: under a.**.b, for a.b, a.x.b and a.x.y.b, and not
\* for a or a.c.
C23_InnerDeepWildcardMatching ==
  (supportsWildcards /\ last.op = "emit") =>
    \A f \in Stored :
      (\A pp \in PatternsOf(f) : InnerDeepAt(pp) > 0) =>
        (f \in SeqToSet(last.ran) <=>
           \E pp \in PatternsOf(f) : InnerDeepMatch(pp, ParseEventName(last.ev)))

\* C24: in flat mode the wrapper of limitedTimes(E, t, H) with t <= 0 has
\* invoked H once per emit(E) made since, and is still stored for E.
C24_NonPositiveTimesNeverUnregisters ==
  \A f \in FnIds :
    (~supportsWildcards /\ fns[f].kind = "lim" /\ fns[f].times <= 0)
      => /\ hits[f] = seen[f]
         /\ f \in SeqToSet(eventHandlers[fns[f].ev].items)

\* a registry entry is absent, one function, or a list that is not empty
WellShaped(slot) ==
  \/ slot = Absent
  \/ slot.tag = "fn" /\ Len(slot.items) = 1
  \/ slot.tag = "arr" /\ Len(slot.items) >= 1

RegistryWellShaped ==
  ~supportsWildcards => \A n \in DOMAIN eventHandlers : WellShaped(eventHandlers[n])

\* an off that takes away the only handler stored for its event leaves the
\* entry absent
LastHandlerOffDeletesKey ==
  (~supportsWildcards /\ last'.op = "off"
     /\ Len(eventHandlers[last'.ev].items) = 1
     /\ eventHandlers'[last'.ev] # eventHandlers[last'.ev])
    => eventHandlers'[last'.ev] = Absent

\* an emit of E follows an off(E, H) that removed the last handler of E
EmitAfterLastHandlerOff ==
  /\ ~supportsWildcards /\ last.op = "off" /\ Len(last.pre) = 1
  /\ eventHandlers[last.ev] = Absent
  /\ last'.op = "emit" /\ last'.ev = last.ev

\* C25 as claimed: in flat mode every registry entry is absent, a single
\* handler or a non-empty list; an off that removes the last handler of an
\* event deletes the key, and a following emit of that event returns false.
C25_EmitAfterLastOffReturnsFalse ==
  /\ []RegistryWellShaped
  /\ [][LastHandlerOffDeletesKey]_vars
  /\ [][EmitAfterLastHandlerOff => last'.ret = "false"]_vars

\* C25 as amended: in flat mode every registry entry is absent, a single
\* handler or a non-empty list; an off that removes the last handler of an
\* event deletes the key, and a following emit of that event invokes
\* nothing and returns false, except that for the event "error" with
\* suppressErrors off it fails with the unhandled-error failure.
C25_RegistryEntryShape ==
  /\ []RegistryWellShaped
  /\ [][LastHandlerOffDeletesKey]_vars
  /\ [][EmitAfterLastHandlerOff =>
          /\ last'.ran = <<>>
          /\ last'.ret = IF last.ev = N_error /\ ~suppressErrors
                         THEN "throw:" \o ErrorCause(last'.arg) ELSE "false"]_vars

\* the once wrappers around the handler that emits its own event
ReenteredWrappers ==
  {f \in FnIds : fns[f].kind = "lim" /\ fns[f].times = 1
                   /\ fns[f].inner = Reemitter}

RECURSIVE SumOver(_, _)
SumOver(S, q) ==
  IF S = {} THEN 0
  ELSE LET x == CHOOSE y \in S : TRUE IN Count(q, x) + SumOver(S \ {x}, q)

\* C26: in flat mode the wrapper of a once handler that emits its own event
\* from its body is invoked at most once over the outer emit, the nested
\* emit and every later emit: once it has been invoked it is no longer
\* stored, and an emit runs the handler's body once for each of its
\* wrappers that it invoked.
C26_OnceHandlerNotReentered ==
  ~supportsWildcards =>
    /\ \A f \in ReenteredWrappers :
         /\ hits[f] <= 1
         /\ hits[f] = 1 => f \notin SeqToSet(eventHandlers[N_a].items)
         /\ last.op = "emit" => Count(last.ran, f) <= 1
    /\ last.op = "emit" =>
         Count(last.body, Reemitter) = SumOver(ReenteredWrappers, last.ran)

\* q without the earliest occurrence of x
RECURSIVE WithoutFirst(_, _)
WithoutFirst(q, x) ==
  IF q = <<>> THEN <<>>
  ELSE IF Head(q) = x THEN Tail(q)
  ELSE <<Head(q)>> \o WithoutFirst(Tail(q), x)

\* C27: in flat mode one off(E, H) with H registered n >= 1 times on E
\* removes the earliest registration of H and nothing else, and the emit(E)
\* that follows invokes H n-1 times and the other handlers of E in their
\* order.
C27_OffRemovesEarliestRegistration ==
  /\ []((~supportsWildcards /\ last.op = "off" /\ Count(last.pre, last.fn) >= 1)
          => eventHandlers[last.ev].items = WithoutFirst(last.pre, last.fn))
  /\ [][(~supportsWildcards /\ last.op = "off" /\ Count(last.pre, last.fn) >= 1
           /\ last'.op = "emit" /\ last'.ev = last.ev)
          => /\ Count(last'.ran, last.fn) = Count(last.pre, last.fn) - 1
             /\ last'.ran = WithoutFirst(last.pre, last.fn)]_vars

IsPrefix(p, q) == Len(p) <= Len(q) /\ SubSeq(q, 1, Len(p)) = p

\* the listeners the notifications q were delivered to, in order
ListenersTold(q) == [i \in 1..Len(q) |-> q[i].listener]

\* the caller's functions behind the entries of the table for `name`
ListenersOf(name) ==
  [i \in 1..Len(internalHandlers[name]) |->
     FinalReturn(Machine, internalHandlers[name][i])]

Deferred(f) ==
  fns[f].kind = "prep" /\ fns[f].opts.runAsync /\ fns[f].opts.promisify = "no"

\* the callbacks an emit that invoked q with arg hands to setImmediate
RECURSIVE Scheduled(_, _)
Scheduled(q, arg) ==
  IF q = <<>> THEN <<>>
  ELSE IF Deferred(Head(q))
  THEN <<[fn |-> fns[Head(q)].inner, arg |-> arg, tick |-> FALSE, slot |-> 0,
          owned |-> FALSE]>> \o Scheduled(Tail(q), arg)
  ELSE Scheduled(Tail(q), arg)

\* the caller's functions among q, which run inside the call that invokes them
RECURSIVE Immediate(_)
Immediate(q) ==
  IF q = <<>> THEN <<>>
  ELSE IF fns[Head(q)].kind = "user" THEN <<Head(q)>> \o Immediate(Tail(q))
  ELSE Immediate(Tail(q))

\* C22: an emit(E, arg) that invokes closures made for {runAsync: true}
\* returns true without having run their handlers, and leaves exactly one
\* pending callback per closure, carrying the emit's argument; the runtime
\* runs one pending callback at a time, which invokes its handler once with
\* that argument and is pending no more; and every pending callback is
\* eventually run.
C22_RunAsyncDefersAndRunsOnce ==
  /\ []((last.op = "emit" /\ \E i \in 1..Len(last.ran) : Deferred(last.ran[i]))
          => /\ last.ret = "true"
             /\ last.body = Immediate(last.ran))
  /\ [][last'.op = "emit" => tasks' = tasks \o Scheduled(last'.ran, last'.arg)]_vars
  /\ [][last'.op = "task"
          => \E i \in 1..Len(tasks) :
               /\ tasks' = Splice(tasks, i)
               /\ last'.body = <<tasks[i].fn>>
               /\ last'.fn = tasks[i].fn /\ last'.arg = tasks[i].arg]_vars
  /\ \A h \in Direct, a \in Args :
       (\E i \in 1..Len(tasks) : tasks[i].fn = h /\ tasks[i].arg = a)
         ~> (last.op = "task" /\ last.fn = h /\ last.arg = a /\ last.body = <<h>>)

(* ----------------------------- witnesses ------------------------------- *)

\* an emit ran a handler through a `*` segment of its pattern and left out
\* a handler whose literal pattern does not match, with both in the tree
W8_StarMatchedLiteralDidNot ==
  /\ supportsWildcards /\ last.op = "emit"
  /\ \E f, g \in Stored :
       /\ \A pp \in PatternsOf(f) \cup PatternsOf(g) : IsSimple(pp)
       /\ \E pp \in PatternsOf(f) :
            Includes(pp, Star) /\ SimpleMatch(pp, ParseEventName(last.ev))
       /\ f \in SeqToSet(last.ran)
       /\ g \notin SeqToSet(last.ran)

\* an emit of an event with exactly |Q| segments ran a handler registered
\* under Q.**, with Q not empty
W9_DeepMatchedNothingTrailing ==
  /\ supportsWildcards /\ last.op = "emit"
  /\ \E f \in Stored :
       /\ \A pp \in PatternsOf(f) : IsTrailingDeep(pp)
       /\ \E pp \in PatternsOf(f) :
            /\ Len(pp) = Len(ParseEventName(last.ev)) + 1
            /\ Len(pp) >= 2
            /\ DeepMatch(pp, ParseEventName(last.ev))
       /\ f \in SeqToSet(last.ran)

W12_ThirdHandlerWarned ==
  /\ ~supportsWildcards /\ maxHandlersCount = 2
  /\ last.op \in RegistrationOps /\ Len(last.pre) = 2 /\ last.warns = 1

\* on(E, H) told two newListener listeners, the probing one among them, and
\* the emit the probing listener made ran an earlier handler of E but not H
W13_ProbeDidNotReachNewHandler ==
  /\ last.op = "on" /\ last.ev \notin InternalNames /\ notifyNewListener
  /\ Len(NotesOf(last.notes, N_newListener)) = 2
  /\ \E i \in 1..2 : last.notes[i].listener \in Probing
  /\ last.ran # <<>>
  /\ last.fn \notin SeqToSet(last.ran)

\* off removed a handler and told the one removeListener listener
W14_RemovalTold ==
  /\ last.op = "off" /\ notifyRemoveListener
  /\ Removals = 1
  /\ Len(NotesOf(last.notes, N_removeListener)) = 1

\* a dispatch in which a listener threw and a listener added after it was
\* invoked all the same
W20_ListenerAfterThrowInvoked ==
  /\ dispatched.op = "dispatch" /\ dispatched.payload = Boom
  /\ dispatched.errors = 1
  /\ \E i \in 1..(Len(dispatched.pre) - 1) : dispatched.pre[i] \in Throwing
  /\ dispatched.ran = dispatched.pre

\* an emit with the Error argument returned true with one callback pending
\* and no handler body run, and the callback has now run the handler with
\* that argument
W22_DeferredHandlerRanLater ==
  /\ last.op = "task" /\ last.arg = "err" /\ last.body = <<2>>
  /\ \E f \in FnIds : Deferred(f) /\ fns[f].inner = 2
  /\ tasks = <<>>

\* off removed the only handler left for an event on which two
\* registrations had been made, and the entry is absent
W25_ListOfOneCollapsed ==
  /\ ~supportsWildcards /\ last.op = "off" /\ Len(last.pre) = 1
  /\ eventHandlers[last.ev] = Absent
  /\ Cardinality({r \in regs : r.ev = last.ev}) = 2

\* an emit invoked the once wrapper of the handler that emits its own
\* event; the nested emit ran another handler of the event a second time
\* and did not run the once handler again
W26_NestedEmitSkippedOnceHandler ==
  /\ ~supportsWildcards /\ last.op = "emit"
  /\ Count(last.body, Reemitter) = 1
  /\ \E h \in Direct : Count(last.body, h) = 2
  /\ \E f \in ReenteredWrappers : hits[f] = 1

====
